---- MODULE Spec2Model ----
(***************************************************************************)
(* gogpsdo: HP Z3805A Time-of-Day telegrams to chrony SOCK samples.        *)
(*                                                                         *)
(* The module models src/gogpsdo.go: the telegram parser                   *)
(* (parseZ3805APacket), the sample encoder and one-shot transmitter        *)
(* (sendChronySample) and the tasks of Run (serial read loop, periodic     *)
(* status reporter, signal handler).                                       *)
(*                                                                         *)
(* Spec       the tasks of Run, interleaved.                               *)
(* SpecParse  parseZ3805APacket and the encoder of sendChronySample        *)
(*            applied to buffers drawn from a bounded set.                 *)
(***************************************************************************)
EXTENDS Integers, Sequences, FiniteSets, TLC

VARIABLES
    pc,          \* position of the read loop of Run (or of the call in SpecParse)
    run,         \* Run's local `run`, written by the signal goroutine
    done,        \* TRUE once the done channel is closed
    sigpc,       \* position of the signal goroutine
    reppc,       \* position of the status reporting goroutine
    snap,        \* the reporter's local copies: stats snapshot and currentData
    buffer,      \* the serial read buffer (the argument of parseZ3805APacket)
    n,           \* bytes returned by the last port.Read
    data,        \* the *Z3805AData of the current telegram, or Nil
    currentData, \* Run's local currentData
    stats,       \* g.stats
    mutex,       \* g.mutex: [writer |-> holder or "none", readers |-> count]
    dataMutex,   \* Run's dataMutex, same shape
    buf,         \* sendChronySample's bytes.Buffer
    conn,        \* sendChronySample's connection: "none", "open", "closed"
    wire,        \* datagrams delivered to the socket, in order of the writes
    hist         \* one entry per 16-byte read: what was done for that telegram

vars == <<pc, run, done, sigpc, reppc, snap, buffer, n, data, currentData,
          stats, mutex, dataMutex, buf, conn, wire, hist>>

----------------------------------------------------------------------------
(* Bounds of the model.                                                    *)

\* 16-byte reads the read loop performs before the serial line goes quiet.
MaxTelegrams == 2

\* Longest buffer handed to parseZ3805APacket in SpecParse.
MaxLen == 17

\* Last two-digit year of the calendar sweep of SpecParse (00 .. MaxSweepYear).
MaxSweepYear == 21

----------------------------------------------------------------------------
(* Values.                                                                 *)

Nil == [isNil |-> TRUE]

GPSDOPowerUp == "POWER_UP"
GPSDOHoldover == "HOLDOVER"
GPSDOLocked == "LOCKED"
GPSDOUnknown == "UNKNOWN"

\* The telegram length and its terminator.
TelegramLen == 16
Terminator == 13

\* Days added by the GPS week rollover fix, and the year below which it applies.
RolloverDays == 7168
RolloverYear == 2020

\* sockSample.Magic
Magic == 1397703499

----------------------------------------------------------------------------
(* time.Time in UTC: [day |-> days since 1 January 1970,                   *)
(*                    sod |-> seconds into that day, nsec |-> nanoseconds]. *)
(* The calendar arithmetic is that of Go's time package, with absolute day *)
(* counts taken from 1 January 1601 (the start of a 400-year cycle).       *)
(* An int64 too wide for 32-bit integer arithmetic is held as               *)
(* [hi |-> v \div 65536, lo |-> v % 65536].                                *)

isLeap(year) == year % 4 = 0 /\ (year % 100 # 0 \/ year % 400 = 0)

\* daysBefore[m] is the number of days in a non-leap year before month m.
daysBefore == <<0, 31, 59, 90, 120, 151, 181, 212, 243, 273, 304, 334, 365>>

\* Days from 1 January 1601 to 1 January of the year 1601 + y: whole 400-year,
\* 100-year and 4-year cycles, then single years.
daysOfCycles(y) ==
    146097 * (y \div 400) + 36524 * ((y % 400) \div 100)
    + 1461 * ((y % 100) \div 4) + 365 * (y % 4)

daysSinceEpoch(year) == daysOfCycles(year - 1601)

\* Seconds into the day, and the days they carry.
clockOf(hour, min, sec) == hour * 3600 + min * 60 + sec

\* The time `s` seconds after the start of the absolute day d.
timeOf(d, s) ==
    [day  |-> (d - 134774) + (s \div 86400),
     sod  |-> s % 86400,
     nsec |-> 0]

\* time.Date(year, month, day, hour, min, sec, 0, time.UTC); a day outside the
\* month is normalised by plain day arithmetic.
Date(year, month, day, hour, min, sec) ==
    timeOf(daysSinceEpoch(year) + daysBefore[month]
             + (IF isLeap(year) /\ month >= 3 THEN 1 ELSE 0) + (day - 1),
           clockOf(hour, min, sec))

\* Whole centuries in the d days of a 400-year cycle, and whole years in the d
\* days of a 4-year cycle: the fourth quotient belongs to the last one.
cut4(q) == q - (q \div 4)

\* The year and the zero-based day of the year, cycle by cycle.
absDate4(y, d) ==
    [year |-> 1601 + y + cut4(d \div 365),
     yday |-> d - 365 * cut4(d \div 365)]

absDate100(y, d) == absDate4(y + 4 * (d \div 1461), d % 1461)

absDate400(y, d) ==
    absDate100(y + 100 * cut4(d \div 36524), d - 36524 * cut4(d \div 36524))

absDays(d) == absDate400(400 * (d \div 146097), d % 146097)

\* The year and the zero-based day of the year of t.
absDate(t) == absDays(t.day + 134774)

\* The month and the day of the month of day d of a non-leap year, where
\* m0 = d / 31 is the month or the one before it.
monthDayIn(d, m0) ==
    IF d >= daysBefore[m0 + 2]
    THEN [month |-> m0 + 2, day |-> d - daysBefore[m0 + 2] + 1]
    ELSE [month |-> m0 + 1, day |-> d - daysBefore[m0 + 1] + 1]

monthDayOf(yday, leap) ==
    IF leap /\ yday = 31 + 29 - 1
    THEN [month |-> 2, day |-> 29]
    ELSE IF leap /\ yday > 31 + 29 - 1
         THEN monthDayIn(yday - 1, (yday - 1) \div 31)
         ELSE monthDayIn(yday, yday \div 31)

yearMonthDay(a) == monthDayOf(a.yday, isLeap(a.year))

\* The month and the day of the month of t.
monthDay(t) == yearMonthDay(absDate(t))

Year(t) == absDate(t).year
YearDay(t) == absDate(t).yday + 1
Month(t) == monthDay(t).month
Day(t) == monthDay(t).day
Hour(t) == t.sod \div 3600
Minute(t) == (t.sod % 3600) \div 60
Second(t) == t.sod % 60
Nanosecond(t) == t.nsec

\* An int64 from its upper part and a non-negative remainder below 2^31.
carry(hi, low) == [hi |-> hi + (low \div 65536), lo |-> low % 65536]

\* t.Unix(): day * 86400 + sod as an int64, with 86400 = 65536 + 20864.
Unix(t) == carry(t.day, t.day * 20864 + t.sod)

withNsec(r, nsec) == [r EXCEPT !.nsec = nsec]

\* t.AddDate(0, 0, days)
AddDate(t, days) ==
    withNsec(Date(Year(t), Month(t), Day(t) + days, Hour(t), Minute(t), Second(t)),
             t.nsec)

----------------------------------------------------------------------------
(* parseZ3805APacket                                                       *)

\* Fields with the two year digits in the wrong order.
FieldsYearSwapped(d) ==
    [year        |-> 2000 + d[1] + d[2] * 10,
     dayOfYear   |-> d[3] * 100 + d[4] * 10 + d[5],
     hour        |-> d[6] * 10 + d[7],
     minute      |-> d[8] * 10 + d[9],
     second      |-> d[10] * 10 + d[11],
     leapSeconds |-> d[12] * 10 + d[13],
     statusVal   |-> d[14] * 10 + d[15]]

\* The fields of a 16-byte buffer, one decimal digit per byte.
Fields(d) ==
    [year        |-> 2000 + d[1] * 10 + d[2],
     dayOfYear   |-> d[3] * 100 + d[4] * 10 + d[5],
     hour        |-> d[6] * 10 + d[7],
     minute      |-> d[8] * 10 + d[9],
     second      |-> d[10] * 10 + d[11],
     leapSeconds |-> d[12] * 10 + d[13],
     statusVal   |-> d[14] * 10 + d[15]]

\* The length and terminator test.
Framed(d) == Len(d) = TelegramLen /\ d[TelegramLen] = Terminator

\* OutOfRange with the hour test off by one.
OutOfRangeHour24(f) ==
    \/ f.year < 2000
    \/ f.year > 2099
    \/ f.dayOfYear < 1
    \/ f.dayOfYear > 366
    \/ f.hour > 24
    \/ f.minute > 59
    \/ f.second > 59

\* "Validate ranges": TRUE when the fields are rejected.
OutOfRange(f) ==
    \/ f.year < 2000
    \/ f.year > 2099
    \/ f.dayOfYear < 1
    \/ f.dayOfYear > 366
    \/ f.hour > 23
    \/ f.minute > 59
    \/ f.second > 59

\* "Convert status to enum per Z3805A documentation"
StatusOf(statusVal) ==
    CASE statusVal = 0   -> GPSDOLocked
      [] statusVal = 10  -> GPSDOPowerUp
      [] statusVal = 100 -> GPSDOHoldover
      [] OTHER           -> GPSDOUnknown

\* IsValid without Holdover.
IsValidLockedOnly(status) == status = GPSDOLocked

IsValid(status) == status = GPSDOLocked \/ status = GPSDOHoldover

\* time.Date(targetDate.Year(), targetDate.Month(), targetDate.Day(), ...)
DateOn(targetDate, hour, min, sec) ==
    Date(Year(targetDate), Month(targetDate), Day(targetDate), hour, min, sec)

\* "Convert day of year to proper date"
BaseTimestamp(f) ==
    DateOn(AddDate(Date(f.year, 1, 1, 0, 0, 0), f.dayOfYear - 1),
           f.hour, f.minute, f.second)

\* The timestamp, year and day of the year after the fix was applied.
Recomputed(fixed) ==
    [timestamp |-> fixed, year |-> Year(fixed), dayOfYear |-> YearDay(fixed)]

\* NeedsRollover with the threshold year included.
NeedsRolloverInclusive(year) == year <= RolloverYear

\* TRUE when the year is "suspiciously old".
NeedsRollover(year) == year < RolloverYear

\* "GPS week rollover fix": the timestamp, year and day of year of the sample.
Rollover(f, timestamp) ==
    IF NeedsRollover(f.year)
    THEN Recomputed(AddDate(timestamp, RolloverDays))
    ELSE [timestamp |-> timestamp, year |-> f.year, dayOfYear |-> f.dayOfYear]

\* The Z3805AData returned for accepted fields.
Z3805AData(f, c, status, now) ==
    [Year        |-> c.year,
     DayOfYear   |-> c.dayOfYear,
     Hour        |-> f.hour,
     Minute      |-> f.minute,
     Second      |-> f.second,
     LeapSeconds |-> f.leapSeconds,
     Status      |-> status,
     Valid       |-> IsValid(status),
     Timestamp   |-> c.timestamp,
     ParseTime   |-> now]

\* The part of parseZ3805APacket after the length and terminator test.
parseFields(f, now) ==
    IF OutOfRange(f) THEN Nil
    ELSE Z3805AData(f, Rollover(f, BaseTimestamp(f)), StatusOf(f.statusVal), now)

\* parseZ3805APacket(data); `now` is what time.Now() returns.
parseZ3805APacket(d, now) ==
    IF ~Framed(d) THEN Nil ELSE parseFields(Fields(d), now)

----------------------------------------------------------------------------
(* sendChronySample: the record and its encoding                           *)

\* Skipped without the test of Valid.
SkippedNilOnly(d) == d = Nil

\* The guard of sendChronySample: TRUE when nothing is sent.
Skipped(d) == d = Nil \/ ~d.Valid

\* Sample with the decoded leap second count passed on in Leap.
SampleWithLeap(d) ==
    [Sec    |-> Unix(d.Timestamp),
     Usec   |-> Nanosecond(d.Timestamp) \div 1000,
     Offset |-> 0,
     Pulse  |-> 0,
     Leap   |-> d.LeapSeconds,
     Pad    |-> 0,
     Magic  |-> Magic]

\* The sockSample built from a sample. Offset holds the bits of the float64.
Sample(d) ==
    [Sec    |-> Unix(d.Timestamp),
     Usec   |-> Nanosecond(d.Timestamp) \div 1000,
     Offset |-> 0,
     Pulse  |-> 0,
     Leap   |-> 0,
     Pad    |-> 0,
     Magic  |-> Magic]

\* v as `width` little-endian bytes, two's complement.
RECURSIVE LittleEndian(_, _)
LittleEndian(v, width) ==
    IF width = 0 THEN <<>>
    ELSE <<v % 256>> \o LittleEndian(v \div 256, width - 1)

\* An int64 held as [hi, lo] as 8 little-endian bytes.
LittleEndian64(v) == LittleEndian(v.lo, 2) \o LittleEndian(v.hi, 6)

\* Encode with a timeval of two 32-bit fields.
EncodeTimeval32(s) ==
    LittleEndian(s.Sec.lo, 2) \o LittleEndian(s.Sec.hi, 2) \o LittleEndian(s.Usec, 4)
    \o LittleEndian(s.Offset, 8)
    \o LittleEndian(s.Pulse, 4) \o LittleEndian(s.Leap, 4)
    \o LittleEndian(s.Pad, 4) \o LittleEndian(s.Magic, 4)

\* binary.Write(buf, binary.LittleEndian, sample): the fields in declaration
\* order, unpadded; Sec and Usec are int64, Offset float64, the rest int32.
Encode(s) ==
    LittleEndian64(s.Sec) \o LittleEndian(s.Usec, 8) \o LittleEndian(s.Offset, 8)
    \o LittleEndian(s.Pulse, 4) \o LittleEndian(s.Leap, 4)
    \o LittleEndian(s.Pad, 4) \o LittleEndian(s.Magic, 4)

----------------------------------------------------------------------------
(* The state after construction (NewGPSDOChronySock and the locals of Run). *)

ZeroBuffer == [i \in 1..TelegramLen |-> 0]

ZeroStats == [totalPackets |-> 0, validPackets |-> 0, chronySamples |-> 0,
              lastUpdate |-> 0]

Unlocked == [writer |-> "none", readers |-> 0]

InitCommon ==
    /\ run = TRUE
    /\ done = FALSE
    /\ sigpc = "wait"
    /\ reppc = "select"
    /\ snap = [stats |-> Nil, data |-> Nil]
    /\ n = 0
    /\ data = Nil
    /\ currentData = Nil
    /\ stats = ZeroStats
    /\ mutex = Unlocked
    /\ dataMutex = Unlocked
    /\ buf = <<>>
    /\ conn = "none"
    /\ wire = <<>>
    /\ hist = <<>>

----------------------------------------------------------------------------
(* SpecParse: parseZ3805APacket, then the guard and the encoder of         *)
(* sendChronySample, on one buffer drawn from ParseInputs.                 *)

Digits2(v) == <<v \div 10, v % 10>>
Digits3(v) == <<v \div 100, (v \div 10) % 10, v % 10>>

\* A buffer from its byte groups: year, day of year, hour, minute, second,
\* leap seconds, status, terminator.
Telegram(yy, ddd, hh, mm, ss, ll, st, term) ==
    yy \o ddd \o hh \o mm \o ss \o ll \o st \o <<term>>

\* 2025, day 43, 12:15:30, leap 0, status 0: one decimal digit per byte.
DigitScenario ==
    Telegram(<<2, 5>>, <<0, 4, 3>>, <<1, 2>>, <<1, 5>>, <<3, 0>>, <<0, 0>>, <<0, 0>>, Terminator)

\* The buffer 0x25,0x05, 0x04,0x03,0x00, 0x12,0x15, 0x30,0x00, 0x00,... 0x0D.
PackedScenario ==
    Telegram(<<37, 5>>, <<4, 3, 0>>, <<18, 21>>, <<48, 0>>, <<0, 0>>, <<0, 0>>, <<0, 0>>, Terminator)

\* Every day of the years 2000 .. 2000 + MaxSweepYear, of 2025 and of 2099.
SweepInputs ==
    { Telegram(Digits2(yy), Digits3(ddd), <<1, 2>>, <<1, 5>>, <<3, 0>>, <<0, 0>>, <<0, 0>>, Terminator) :
        yy \in (0..MaxSweepYear) \cup {25, 99}, ddd \in 1..366 }

YearBytes == {<<0, 0>>, <<1, 9>>, <<2, 0>>, <<9, 9>>, <<10, 0>>, <<1, 10>>, <<37, 5>>, <<25, 5>>}
DayBytes == {<<0, 0, 0>>, <<0, 0, 1>>, <<3, 6, 6>>, <<3, 6, 7>>, <<4, 3, 0>>, <<0, 0, 255>>, <<3, 5, 16>>}
HourBytes == {<<0, 0>>, <<2, 3>>, <<2, 4>>, <<1, 14>>, <<18, 21>>}
MinuteBytes == {<<0, 0>>, <<5, 9>>, <<6, 0>>, <<48, 0>>}
SecondBytes == {<<0, 0>>, <<5, 9>>, <<6, 0>>, <<0, 255>>}
LeapBytes == {<<0, 0>>, <<1, 8>>, <<9, 9>>}
StatusBytes == {<<0, 0>>, <<1, 0>>, <<10, 0>>, <<9, 10>>, <<0, 5>>, <<0, 1>>, <<9, 9>>, <<0, 10>>}

\* Telegrams at and beyond the edges of the field ranges, with bytes that are
\* not decimal digits among them, and both terminators.
EdgeInputs ==
    { Telegram(yy, ddd, <<1, 2>>, <<1, 5>>, <<3, 0>>, <<0, 0>>, <<0, 0>>, Terminator) :
        yy \in YearBytes, ddd \in DayBytes }
    \cup
    { Telegram(<<2, 5>>, <<0, 4, 3>>, hh, mm, ss, <<0, 0>>, <<0, 0>>, Terminator) :
        hh \in HourBytes, mm \in MinuteBytes, ss \in SecondBytes }
    \cup
    { Telegram(yy, <<0, 4, 3>>, <<1, 2>>, <<1, 5>>, <<3, 0>>, ll, st, term) :
        yy \in {<<2, 5>>, <<1, 9>>}, ll \in LeapBytes, st \in StatusBytes,
        term \in {Terminator, 10, 0} }
    \cup
    { PackedScenario, [PackedScenario EXCEPT ![TelegramLen] = 10] }

\* Buffers of every length up to MaxLen other than 16: a telegram cut short
\* or extended, and runs of the terminator byte.
LengthInputs ==
    { SubSeq(DigitScenario \o [i \in 1..MaxLen |-> 0], 1, len) :
        len \in (0..MaxLen) \ {TelegramLen} }
    \cup
    { [i \in 1..len |-> Terminator] : len \in (0..MaxLen) \ {TelegramLen} }

\* Every pair of decimal digits as the status field of an accepted telegram.
DigitStatusInputs ==
    { Telegram(<<2, 5>>, <<0, 4, 3>>, <<1, 2>>, <<1, 5>>, <<3, 0>>, <<1, 8>>, <<a, b>>, Terminator) :
        a \in 0..9, b \in 0..9 }

ParseInputs == SweepInputs \cup EdgeInputs \cup LengthInputs \cup DigitStatusInputs

InitParse ==
    /\ pc = "h_parse"
    /\ buffer \in ParseInputs
    /\ InitCommon

\* data := g.parseZ3805APacket(buffer)
HarnessParse ==
    /\ pc = "h_parse"
    /\ data' = parseZ3805APacket(buffer, 0)
    /\ pc' = "h_send"
    /\ UNCHANGED <<run, done, sigpc, reppc, snap, buffer, n, currentData, stats,
                   mutex, dataMutex, buf, conn, wire, hist>>

\* g.sendChronySample(data), up to the encoded record.
HarnessEncode ==
    /\ pc = "h_send"
    /\ buf' = IF Skipped(data) THEN buf ELSE Encode(Sample(data))
    /\ pc' = "h_ret"
    /\ UNCHANGED <<run, done, sigpc, reppc, snap, buffer, n, data, currentData,
                   stats, mutex, dataMutex, conn, wire, hist>>

NextParse == HarnessParse \/ HarnessEncode

SpecParse == InitParse /\ [][NextParse]_vars

\* parseZ3805APacket has returned.
Parsed == pc \in {"h_send", "h_ret"}

----------------------------------------------------------------------------
(* Spec: the tasks of Run. "main" is the serial read loop, which calls      *)
(* parseZ3805APacket and sendChronySample; "reporter" is the status        *)
(* reporting goroutine; "signal" is the goroutine waiting on sigChan.      *)

\* Telegrams the serial line delivers: Locked in 2025, Holdover in 2019 (so
\* the rollover fix applies), PowerUp, an unknown status code, a line-feed
\* terminator, and fields out of range.
RunTelegrams ==
    { DigitScenario,
      Telegram(<<1, 9>>, <<0, 4, 3>>, <<2, 3>>, <<5, 9>>, <<5, 9>>, <<1, 8>>, <<10, 0>>, Terminator),
      Telegram(<<2, 5>>, <<0, 4, 4>>, <<1, 2>>, <<1, 5>>, <<3, 2>>, <<1, 8>>, <<1, 0>>, Terminator),
      Telegram(<<2, 5>>, <<0, 4, 5>>, <<1, 2>>, <<1, 5>>, <<3, 4>>, <<1, 8>>, <<0, 5>>, Terminator),
      [DigitScenario EXCEPT ![TelegramLen] = 10],
      PackedScenario }

\* What a read of fewer than 16 bytes leaves in the buffer: the first k bytes
\* of what the line sent, then what the buffer held.
Overwrite(old, new, k) == [i \in 1..TelegramLen |-> IF i <= k THEN new[i] ELSE old[i]]

\* The entry of hist opened by a 16-byte read: what was read, what was decoded
\* from it, how often each step of the pipeline ran for it, how
\* sendChronySample ended, what it logged last and what it returned.
NewEntry(t) ==
    [tel |-> t, sample |-> Nil, decodes |-> 0, encodes |-> 0, opens |-> 0,
     writes |-> 0, outcome |-> "pending", logged |-> "", returned |-> "pending"]

\* time.Now(), as the ordinal of the telegram being processed.
Now == Len(hist)

\* SendResult of a sendChronySample that returned an error on failure.
SendResultError(outcome) ==
    IF outcome \in {"dial_failed", "write_failed"} THEN "error" ELSE "none"

\* What sendChronySample hands back to its caller: the function has no result.
SendResult(outcome) == "none"

\* When an iteration of the read loop ends, and when sendChronySample returns,
\* their locals (n, data; buf) go out of scope: the model clears them.

\* The last line sendChronySample logs on each of its paths.
SendLog(outcome) ==
    CASE outcome = "dial_failed"  -> "Failed to connect to chrony socket"
      [] outcome = "write_failed" -> "Failed to write to chrony socket"
      [] outcome = "sent"         -> "Chrony binary sample sent"
      [] OTHER                    -> ""

\* The entry of a telegram once sendChronySample has returned with `outcome`.
Returned(e, outcome) ==
    [e EXCEPT !.outcome = outcome, !.logged = SendLog(outcome),
              !.returned = SendResult(outcome)]

\* sync.RWMutex
CanLock(m) == m.writer = "none" /\ m.readers = 0
CanRLock(m) == m.writer = "none"
Locked(m, who) == [m EXCEPT !.writer = who]
RLocked(m) == [m EXCEPT !.readers = @ + 1]
RUnlocked(m) == [m EXCEPT !.readers = @ - 1]

Init ==
    /\ pc = "loop"
    /\ buffer = ZeroBuffer
    /\ InitCommon

mainLocals == <<buffer, n, data, buf, conn, wire, hist>>
others == <<sigpc, reppc, snap>>

\* for run { : `run` is read with no synchronisation, so once the signal
\* goroutine has written it the read may still give the old value.
LoopCheck ==
    /\ pc = "loop"
    /\ \E seen \in {run, TRUE} : pc' = IF seen THEN "read" ELSE "wait"
    /\ UNCHANGED <<run, done, currentData, stats, mutex, dataMutex>>
    /\ UNCHANGED mainLocals
    /\ UNCHANGED others

\* n, err := port.Read(buffer) with err == nil and n == 16
ReadTelegram ==
    /\ pc = "read"
    /\ Len(hist) < MaxTelegrams
    /\ \E t \in RunTelegrams :
          /\ buffer' = t
          /\ hist' = Append(hist, NewEntry(t))
    /\ n' = TelegramLen
    /\ pc' = "check_n"
    /\ UNCHANGED <<run, done, currentData, stats, mutex, dataMutex>>
    /\ UNCHANGED <<data, buf, conn, wire>>
    /\ UNCHANGED others

\* Bytes a read of fewer than 16 bytes delivers.
ShortData == {DigitScenario}

\* n, err := port.Read(buffer) with err == nil and n < 16
ReadShort ==
    /\ pc = "read"
    /\ \E t \in ShortData, k \in {0, TelegramLen \div 2} :
          /\ buffer' = Overwrite(buffer, t, k)
          /\ n' = k
    /\ pc' = "check_n"
    /\ UNCHANGED <<run, done, currentData, stats, mutex, dataMutex>>
    /\ UNCHANGED <<data, buf, conn, wire, hist>>
    /\ UNCHANGED others

\* n, err := port.Read(buffer) with err != nil (the read timeout): continue
ReadError ==
    /\ pc = "read"
    /\ n' = 0
    /\ pc' = "loop"
    /\ UNCHANGED <<run, done, currentData, stats, mutex, dataMutex>>
    /\ UNCHANGED <<buffer, data, buf, conn, wire, hist>>
    /\ UNCHANGED others

\* A g.mutex.Lock() of the main task, from position `at` to position `to`.
MainLock(at, to) ==
    /\ pc = at
    /\ CanLock(mutex)
    /\ mutex' = Locked(mutex, "main")
    /\ pc' = to
    /\ UNCHANGED <<run, done, currentData, stats, dataMutex>>
    /\ UNCHANGED mainLocals
    /\ UNCHANGED others

\* A g.mutex.Unlock() of the main task.
MainUnlock(at, to) ==
    /\ pc = at
    /\ mutex' = Locked(mutex, "none")
    /\ pc' = to
    /\ UNCHANGED <<run, done, currentData, stats, dataMutex>>
    /\ UNCHANGED mainLocals
    /\ UNCHANGED others

\* An update of g.stats by the main task.
MainStats(at, to, new) ==
    /\ pc = at
    /\ stats' = new
    /\ pc' = to
    /\ UNCHANGED <<run, done, currentData, mutex, dataMutex>>
    /\ UNCHANGED mainLocals
    /\ UNCHANGED others

\* if n == 16 { ; otherwise the iteration ends, and with it the scope of n.
CheckLen ==
    /\ pc = "check_n"
    /\ IF n = TelegramLen
       THEN pc' = "lock_total" /\ n' = n
       ELSE pc' = "loop" /\ n' = 0
    /\ UNCHANGED <<run, done, currentData, stats, mutex, dataMutex>>
    /\ UNCHANGED <<buffer, data, buf, conn, wire, hist>>
    /\ UNCHANGED others

LockTotal == MainLock("lock_total", "inc_total")
IncTotal ==
    MainStats("inc_total", "unlock_total",
              [stats EXCEPT !.totalPackets = @ + 1])
UnlockTotal == MainUnlock("unlock_total", "parse")

\* if data := g.parseZ3805APacket(buffer); data != nil {
Parse ==
    /\ pc = "parse"
    /\ data' = parseZ3805APacket(buffer, Now)
    /\ hist' = [hist EXCEPT ![Len(hist)] =
                  IF data' = Nil
                  THEN [@ EXCEPT !.decodes = @ + 1, !.outcome = "rejected"]
                  ELSE [@ EXCEPT !.decodes = @ + 1, !.sample = data']]
    /\ IF data' = Nil
       THEN pc' = "loop" /\ n' = 0
       ELSE pc' = "lock_valid" /\ n' = n
    /\ UNCHANGED <<run, done, currentData, stats, mutex, dataMutex>>
    /\ UNCHANGED <<buffer, buf, conn, wire>>
    /\ UNCHANGED others

LockValid == MainLock("lock_valid", "inc_valid")
IncValid ==
    MainStats("inc_valid", "unlock_valid",
              [stats EXCEPT !.validPackets = @ + 1, !.lastUpdate = Now])
UnlockValid == MainUnlock("unlock_valid", "lock_data")

\* dataMutex.Lock()
LockData ==
    /\ pc = "lock_data"
    /\ CanLock(dataMutex)
    /\ dataMutex' = Locked(dataMutex, "main")
    /\ pc' = "set_current"
    /\ UNCHANGED <<run, done, currentData, stats, mutex>>
    /\ UNCHANGED mainLocals
    /\ UNCHANGED others

\* currentData = data
SetCurrent ==
    /\ pc = "set_current"
    /\ currentData' = data
    /\ pc' = "unlock_data"
    /\ UNCHANGED <<run, done, stats, mutex, dataMutex>>
    /\ UNCHANGED mainLocals
    /\ UNCHANGED others

\* dataMutex.Unlock(), then the log line and the call g.sendChronySample(data)
UnlockData ==
    /\ pc = "unlock_data"
    /\ dataMutex' = Locked(dataMutex, "none")
    /\ pc' = "send"
    /\ UNCHANGED <<run, done, currentData, stats, mutex>>
    /\ UNCHANGED mainLocals
    /\ UNCHANGED others

\* sendChronySample: the guard, then the sample and binary.Write into buf.
\* Encoding a struct of fixed-size fields into a bytes.Buffer cannot fail.
SendEncode ==
    /\ pc = "send"
    /\ IF Skipped(data)
       THEN /\ hist' = [hist EXCEPT ![Len(hist)] = Returned(@, "skipped")]
            /\ buf' = <<>>
            /\ pc' = "loop"
            /\ n' = 0
            /\ data' = Nil
       ELSE /\ hist' = [hist EXCEPT ![Len(hist)].encodes = @ + 1]
            /\ buf' = Encode(Sample(data))
            /\ pc' = "dial"
            /\ UNCHANGED <<n, data>>
    /\ conn' = "none"
    /\ UNCHANGED <<run, done, currentData, stats, mutex, dataMutex>>
    /\ UNCHANGED <<buffer, wire>>
    /\ UNCHANGED others

\* conn, err := net.Dial("unixgram", g.sockPath) with err == nil;
\* defer conn.Close()
DialOk ==
    /\ pc = "dial"
    /\ conn' = "open"
    /\ hist' = [hist EXCEPT ![Len(hist)].opens = @ + 1]
    /\ pc' = "write"
    /\ UNCHANGED <<run, done, currentData, stats, mutex, dataMutex>>
    /\ UNCHANGED <<buffer, n, data, buf, wire>>
    /\ UNCHANGED others

\* net.Dial fails: log and return; no socket was opened.
DialFail ==
    /\ pc = "dial"
    /\ hist' = [hist EXCEPT ![Len(hist)] =
                  Returned([@ EXCEPT !.opens = @ + 1], "dial_failed")]
    /\ buf' = <<>>
    /\ pc' = "loop"
    /\ n' = 0
    /\ data' = Nil
    /\ UNCHANGED <<run, done, currentData, stats, mutex, dataMutex>>
    /\ UNCHANGED <<buffer, conn, wire>>
    /\ UNCHANGED others

\* WriteOk putting the datagram ahead of those already delivered.
WriteOkPrepend ==
    /\ pc = "write"
    /\ wire' = <<[bytes |-> buf, tel |-> Len(hist)]>> \o wire
    /\ hist' = [hist EXCEPT ![Len(hist)].writes = @ + 1]
    /\ pc' = "lock_sent"
    /\ UNCHANGED <<run, done, currentData, stats, mutex, dataMutex>>
    /\ UNCHANGED <<buffer, n, data, buf, conn>>
    /\ UNCHANGED others

\* conn.Write(buf.Bytes()) succeeds within the deadline: one datagram.
WriteOk ==
    /\ pc = "write"
    /\ wire' = Append(wire, [bytes |-> buf, tel |-> Len(hist)])
    /\ hist' = [hist EXCEPT ![Len(hist)].writes = @ + 1]
    /\ pc' = "lock_sent"
    /\ UNCHANGED <<run, done, currentData, stats, mutex, dataMutex>>
    /\ UNCHANGED <<buffer, n, data, buf, conn>>
    /\ UNCHANGED others

\* WriteFail without the deferred conn.Close().
WriteFailNoClose ==
    /\ pc = "write"
    /\ hist' = [hist EXCEPT ![Len(hist)] =
                  Returned([@ EXCEPT !.writes = @ + 1], "write_failed")]
    /\ conn' = conn
    /\ buf' = <<>>
    /\ pc' = "loop"
    /\ n' = 0
    /\ data' = Nil
    /\ UNCHANGED <<run, done, currentData, stats, mutex, dataMutex>>
    /\ UNCHANGED <<buffer, wire>>
    /\ UNCHANGED others

\* conn.Write fails or times out: log and return; the deferred conn.Close()
\* runs.
WriteFail ==
    /\ pc = "write"
    /\ hist' = [hist EXCEPT ![Len(hist)] =
                  Returned([@ EXCEPT !.writes = @ + 1], "write_failed")]
    /\ conn' = "closed"
    /\ buf' = <<>>
    /\ pc' = "loop"
    /\ n' = 0
    /\ data' = Nil
    /\ UNCHANGED <<run, done, currentData, stats, mutex, dataMutex>>
    /\ UNCHANGED <<buffer, wire>>
    /\ UNCHANGED others

LockSent == MainLock("lock_sent", "inc_sent")
\* IncSent counting the sent sample under validPackets.
IncSentAsValid ==
    MainStats("inc_sent", "unlock_sent",
              [stats EXCEPT !.validPackets = @ + 1])

IncSent ==
    MainStats("inc_sent", "unlock_sent",
              [stats EXCEPT !.chronySamples = @ + 1])
UnlockSent == MainUnlock("unlock_sent", "send_return")

\* The log line of a sent sample, the return and the deferred conn.Close().
SendReturn ==
    /\ pc = "send_return"
    /\ hist' = [hist EXCEPT ![Len(hist)] = Returned(@, "sent")]
    /\ conn' = "closed"
    /\ buf' = <<>>
    /\ pc' = "loop"
    /\ n' = 0
    /\ data' = Nil
    /\ UNCHANGED <<run, done, currentData, stats, mutex, dataMutex>>
    /\ UNCHANGED <<buffer, wire>>
    /\ UNCHANGED others

\* wg.Wait(), return nil
WaitReporter ==
    /\ pc = "wait"
    /\ reppc = "exit"
    /\ pc' = "done"
    /\ UNCHANGED <<run, done, currentData, stats, mutex, dataMutex>>
    /\ UNCHANGED mainLocals
    /\ UNCHANGED others

Main ==
    \/ LoopCheck \/ ReadTelegram \/ ReadShort \/ ReadError \/ CheckLen
    \/ LockTotal \/ IncTotal \/ UnlockTotal
    \/ Parse
    \/ LockValid \/ IncValid \/ UnlockValid
    \/ LockData \/ SetCurrent \/ UnlockData
    \/ SendEncode \/ DialOk \/ DialFail \/ WriteOk \/ WriteFail
    \/ LockSent \/ IncSent \/ UnlockSent \/ SendReturn
    \/ WaitReporter

\* A step of the reporter that touches only its own position and copies.
RepStep(at, to, newSnap) ==
    /\ reppc = at
    /\ reppc' = to
    /\ snap' = newSnap
    /\ UNCHANGED <<run, done, currentData, stats, mutex, dataMutex>>
    /\ UNCHANGED <<pc, sigpc>>
    /\ UNCHANGED mainLocals

\* case <-done: return
RepDone ==
    /\ done
    /\ RepStep("select", "exit", snap)

\* case <-ticker.C: g.mutex.RLock()
RepRLock ==
    /\ reppc = "select"
    /\ CanRLock(mutex)
    /\ mutex' = RLocked(mutex)
    /\ reppc' = "copy"
    /\ UNCHANGED <<run, done, currentData, stats, dataMutex>>
    /\ UNCHANGED <<pc, sigpc, snap>>
    /\ UNCHANGED mainLocals

\* stats := g.stats
RepCopy == RepStep("copy", "runlock", [snap EXCEPT !.stats = stats])

\* g.mutex.RUnlock()
RepRUnlock ==
    /\ reppc = "runlock"
    /\ mutex' = RUnlocked(mutex)
    /\ reppc' = "data_rlock"
    /\ UNCHANGED <<run, done, currentData, stats, dataMutex>>
    /\ UNCHANGED <<pc, sigpc, snap>>
    /\ UNCHANGED mainLocals

\* dataMutex.RLock()
RepDataRLock ==
    /\ reppc = "data_rlock"
    /\ CanRLock(dataMutex)
    /\ dataMutex' = RLocked(dataMutex)
    /\ reppc' = "data_copy"
    /\ UNCHANGED <<run, done, currentData, stats, mutex>>
    /\ UNCHANGED <<pc, sigpc, snap>>
    /\ UNCHANGED mainLocals

\* data := currentData
RepDataCopy == RepStep("data_copy", "data_runlock", [snap EXCEPT !.data = currentData])

\* dataMutex.RUnlock(); the status lines are logged from the copies, which
\* then go out of scope.
RepDataRUnlock ==
    /\ reppc = "data_runlock"
    /\ dataMutex' = RUnlocked(dataMutex)
    /\ reppc' = "select"
    /\ snap' = [stats |-> Nil, data |-> Nil]
    /\ UNCHANGED <<run, done, currentData, stats, mutex>>
    /\ UNCHANGED <<pc, sigpc>>
    /\ UNCHANGED mainLocals

Reporter ==
    \/ RepDone \/ RepRLock \/ RepCopy \/ RepRUnlock
    \/ RepDataRLock \/ RepDataCopy \/ RepDataRUnlock

\* <-sigChan
SigReceive ==
    /\ sigpc = "wait"
    /\ sigpc' = "stop"
    /\ UNCHANGED <<run, done, currentData, stats, mutex, dataMutex>>
    /\ UNCHANGED <<pc, reppc, snap>>
    /\ UNCHANGED mainLocals

\* run = false
SigStop ==
    /\ sigpc = "stop"
    /\ run' = FALSE
    /\ sigpc' = "close"
    /\ UNCHANGED <<done, currentData, stats, mutex, dataMutex>>
    /\ UNCHANGED <<pc, reppc, snap>>
    /\ UNCHANGED mainLocals

\* close(done)
SigClose ==
    /\ sigpc = "close"
    /\ done' = TRUE
    /\ sigpc' = "exit"
    /\ UNCHANGED <<run, currentData, stats, mutex, dataMutex>>
    /\ UNCHANGED <<pc, reppc, snap>>
    /\ UNCHANGED mainLocals

Signal == SigReceive \/ SigStop \/ SigClose

Next == Main \/ Reporter \/ Signal

Spec == Init /\ [][Next]_vars

----------------------------------------------------------------------------
(* The variables of Run and of the bridge that the tasks read and write,   *)
(* by the position at which each task performs the access. The channels    *)
(* sigChan and done and the two mutexes are synchronisation objects and    *)
(* are not listed.                                                         *)

Tasks == {"main", "reporter", "signal"}

PositionOf(task) ==
    CASE task = "main"     -> pc
      [] task = "reporter" -> reppc
      [] task = "signal"   -> sigpc

Access(task, at, var, write) ==
    [task |-> task, at |-> at, var |-> var, write |-> write]

Accesses ==
    { Access("main", "loop", "run", FALSE),
      Access("main", "read", "buffer", TRUE),
      Access("main", "inc_total", "stats", TRUE),
      Access("main", "parse", "buffer", FALSE),
      Access("main", "inc_valid", "stats", TRUE),
      Access("main", "set_current", "currentData", TRUE),
      Access("main", "inc_sent", "stats", TRUE),
      Access("reporter", "copy", "stats", FALSE),
      Access("reporter", "data_copy", "currentData", FALSE),
      Access("signal", "stop", "run", TRUE) }

\* The accesses the tasks are about to perform.
Pending == {a \in Accesses : PositionOf(a.task) = a.at}

\* Task a.task holds mutex m in the mode access a needs: the write lock for a
\* write, the write or the read lock for a read. Only the reporter takes
\* read locks.
Holds(a, m) ==
    \/ m.writer = a.task
    \/ ~a.write /\ a.task = "reporter" /\ m.readers > 0

\* The mutexes task a.task holds in the mode access a needs.
LocksHeld(a) ==
    {l \in {"mutex", "dataMutex"} :
        Holds(a, IF l = "mutex" THEN mutex ELSE dataMutex)}

\* Variables one task writes and another task reads or writes.
SharedVars ==
    {a.var : a \in {x \in Accesses :
        \E y \in Accesses : y.task # x.task /\ y.var = x.var /\ (x.write \/ y.write)}}

\* Two pending accesses of different tasks to one variable, one of them a
\* write, with no mutex held by both: a data race.
Racing(a, b) ==
    /\ a.task # b.task
    /\ a.var = b.var
    /\ a.write \/ b.write
    /\ LocksHeld(a) \cap LocksHeld(b) = {}

----------------------------------------------------------------------------
(* Properties of parseZ3805APacket and of the encoder, under SpecParse.    *)

\* A field of `width` bytes at byte offset `off` of a record, read back as the
\* receiver does (little-endian): the value of the bytes, highest first.
RECURSIVE ReadLE(_, _, _)
ReadLE(bytes, off, width) ==
    IF width = 0 THEN 0
    ELSE bytes[off + 1] + 256 * ReadLE(bytes, off + 1, width - 1)

\* An 8-byte field read back as an int64 held as [hi, lo].
ReadLE64(bytes, off) ==
    [hi |-> ReadLE(bytes, off + 2, 6), lo |-> ReadLE(bytes, off, 2)]

\* The time q * 128 + r seconds after the Unix epoch; 86400 = 128 * 675.
timeOfUnix(q, r, nsec) ==
    [day |-> q \div 675, sod |-> (q % 675) * 128 + r, nsec |-> nsec]

\* time.Unix(sec, usec * 1000) in UTC, as the receiver of a record reads it.
FromUnix(sec, usec) ==
    timeOfUnix(sec.hi * 512 + (sec.lo \div 128), sec.lo % 128, usec * 1000)

\* The fields as the telegram layout gives them, one decimal digit per byte.
YearIn(d) == 2000 + 10 * d[1] + d[2]
DayOfYearIn(d) == 100 * d[3] + 10 * d[4] + d[5]
HourIn(d) == 10 * d[6] + d[7]
MinuteIn(d) == 10 * d[8] + d[9]
SecondIn(d) == 10 * d[10] + d[11]
LeapIn(d) == 10 * d[12] + d[13]
StatusCodeIn(d) == 10 * d[14] + d[15]

WellFormed(d) ==
    /\ Len(d) = 16
    /\ d[16] = 13
    /\ YearIn(d) \in 2000..2099
    /\ DayOfYearIn(d) \in 1..366
    /\ HourIn(d) \in 0..23
    /\ MinuteIn(d) \in 0..59
    /\ SecondIn(d) \in 0..59

\* The timestamp of the fields before any correction: day DayOfYearIn of
\* YearIn counted from 1 January, at HourIn:MinuteIn:SecondIn.
UncorrectedDay(d) == daysSinceEpoch(YearIn(d)) - 134774 + (DayOfYearIn(d) - 1)
UncorrectedSod(d) == 3600 * HourIn(d) + 60 * MinuteIn(d) + SecondIn(d)

\* C1: parseZ3805APacket returns a sample if and only if the buffer is exactly
\* 16 bytes long, byte 15 is 0x0D and the decoded year, day of year, hour,
\* minute and second are in range; for every other buffer it returns nil.
C1_SampleIffWellFormed ==
    Parsed => ((data # Nil) <=> WellFormed(buffer))

\* C1 witness: a framed telegram rejected only for its hour, 24.
C1_Witness ==
    /\ Parsed
    /\ data = Nil
    /\ Len(buffer) = 16
    /\ buffer[16] = 13
    /\ HourIn(buffer) = 24
    /\ YearIn(buffer) = 2025
    /\ DayOfYearIn(buffer) = 43

\* C2: the status of a sample is decided by the status code of bytes 13-14
\* alone (0 Locked, 10 PowerUp, 100 Holdover, otherwise Unknown), and Valid is
\* true exactly for Locked and Holdover.
C2_StatusFromCode ==
    (Parsed /\ data # Nil) =>
        /\ StatusCodeIn(buffer) = 0 => data.Status = "LOCKED"
        /\ StatusCodeIn(buffer) = 10 => data.Status = "POWER_UP"
        /\ StatusCodeIn(buffer) = 100 => data.Status = "HOLDOVER"
        /\ StatusCodeIn(buffer) \notin {0, 10, 100} => data.Status = "UNKNOWN"
        /\ data.Valid <=> data.Status \in {"LOCKED", "HOLDOVER"}

\* C2 witness: a sample in Holdover (code 100 from the bytes 10, 0), valid.
C2_Witness ==
    /\ Parsed
    /\ data # Nil
    /\ StatusCodeIn(buffer) = 100
    /\ data.Status = "HOLDOVER"
    /\ data.Valid

\* The timestamp, Year and DayOfYear of a sample of a year below 2020 are
\* those of the uncorrected timestamp moved on by exactly 7168 days.
C3_Moved ==
    /\ data.Timestamp.day = UncorrectedDay(buffer) + 7168
    /\ data.Timestamp.sod = UncorrectedSod(buffer)
    /\ data.Timestamp.nsec = 0
    /\ data.Year = Year(data.Timestamp)
    /\ data.DayOfYear = YearDay(data.Timestamp)

\* The timestamp, Year and DayOfYear of a sample of 2020 or later are as decoded.
C3_Kept ==
    /\ data.Timestamp.day = UncorrectedDay(buffer)
    /\ data.Timestamp.sod = UncorrectedSod(buffer)
    /\ data.Timestamp.nsec = 0
    /\ data.Year = YearIn(buffer)
    /\ data.DayOfYear = DayOfYearIn(buffer)

\* C3 as stated: below 2020 the timestamp is moved on by 7168 days and the
\* recomputed Year is at least 2020; from 2020 on nothing is corrected.
C3_Original ==
    (Parsed /\ data # Nil) =>
        IF YearIn(buffer) < 2020
        THEN C3_Moved /\ data.Year >= 2020
        ELSE C3_Kept

\* C3 (amended): below 2020 the timestamp is moved on by exactly 7168 days and
\* Year and DayOfYear are recomputed from it; the recomputed Year is 2019 when
\* the decoded year is 2000 and the day of year is at most 137, and at least
\* 2020 otherwise; from 2020 on nothing is corrected.
C3_RolloverAdds7168Days ==
    (Parsed /\ data # Nil) =>
        IF YearIn(buffer) < 2020
        THEN /\ C3_Moved
             /\ data.Year >= 2019
             /\ data.Year = 2019 <=> (YearIn(buffer) = 2000 /\ DayOfYearIn(buffer) <= 137)
        ELSE C3_Kept

\* C3 witness: a telegram of 2000 whose corrected year is still 2019.
C3_Witness ==
    /\ Parsed
    /\ data # Nil
    /\ YearIn(buffer) = 2000
    /\ DayOfYearIn(buffer) = 137
    /\ data.Year = 2019
    /\ data.DayOfYear = 365

\* The sample the scenario of C4 describes: 2025, day 43, 12:15:30, leap 0,
\* Locked, valid, timestamp 12 February 2025 12:15:30 UTC (no correction).
C4_Expected ==
    /\ data # Nil
    /\ data.Year = 2025
    /\ data.DayOfYear = 43
    /\ data.Hour = 12
    /\ data.Minute = 15
    /\ data.Second = 30
    /\ data.LeapSeconds = 0
    /\ data.Status = "LOCKED"
    /\ data.Valid
    /\ data.Timestamp = [day |-> 20131, sod |-> 44130, nsec |-> 0]

\* C4 as stated: the buffer 0x25,0x05,0x04,0x03,0x00,0x12,0x15,0x30,0x00,...,
\* 0x0D decodes to that sample.
C4_Original ==
    (Parsed /\ buffer = PackedScenario) => C4_Expected

\* C4 (amended): that buffer is rejected (its bytes decode to year 2375, day
\* 430, hour 201, minute 480); the buffer with one decimal digit per byte,
\* 2,5,0,4,3,1,2,1,5,3,0,0,0,0,0,0x0D, decodes to the sample described.
C4_DigitScenarioDecodes ==
    /\ (Parsed /\ buffer = PackedScenario) =>
            /\ data = Nil
            /\ YearIn(buffer) = 2375
            /\ DayOfYearIn(buffer) = 430
            /\ HourIn(buffer) = 201
            /\ MinuteIn(buffer) = 480
    /\ (Parsed /\ buffer = DigitScenario) => C4_Expected

\* C4 witness: the digit-per-byte buffer has been decoded to a sample.
C4_Witness ==
    /\ Parsed
    /\ buffer = DigitScenario
    /\ data # Nil
    /\ data.Year = 2025

\* C7: the record encoded for a valid sample carries the Unix seconds of the
\* sample's timestamp, its sub-second part in microseconds, offset 0.0, pulse
\* 0, leap 0, reserved 0 and the magic 0x534F434B, whatever the decoded leap
\* second count and status; the seconds and microseconds read back from the
\* record give the sample's timestamp.
C7_RecordCarriesTimestamp ==
    (pc = "h_ret" /\ data # Nil /\ data.Valid) =>
        /\ ReadLE64(buf, 0) = Unix(data.Timestamp)
        /\ ReadLE64(buf, 8) = [hi |-> 0, lo |-> data.Timestamp.nsec \div 1000]
        /\ ReadLE64(buf, 16) = [hi |-> 0, lo |-> 0]
        /\ ReadLE(buf, 24, 4) = 0
        /\ ReadLE(buf, 28, 4) = 0
        /\ ReadLE(buf, 32, 4) = 0
        /\ ReadLE(buf, 36, 4) = 1397703499
        /\ <<buf[37], buf[38], buf[39], buf[40]>> = <<75, 67, 79, 83>>
        /\ FromUnix(ReadLE64(buf, 0), ReadLE64(buf, 8).lo) = data.Timestamp

\* C7 witness: a record encoded for a Holdover sample with 18 leap seconds.
C7_Witness ==
    /\ pc = "h_ret"
    /\ data # Nil
    /\ data.Valid
    /\ data.Status = "HOLDOVER"
    /\ data.LeapSeconds = 18
    /\ Len(buf) > 0

----------------------------------------------------------------------------
(* Properties of the read loop and of sendChronySample, under Spec.        *)

Telegrams == 1..Len(hist)
Records == 1..Len(wire)

\* The telegrams whose delivery failed, and those delivered.
Failed == {i \in Telegrams : hist[i].outcome \in {"dial_failed", "write_failed"}}
Sent == {i \in Telegrams : hist[i].outcome = "sent"}

\* The telegrams that decoded to a sample with Valid true.
ValidTelegrams == {i \in Telegrams : hist[i].sample # Nil /\ hist[i].sample.Valid}

\* What parseZ3805APacket gives for each telegram of the serial line, apart
\* from ParseTime, and the record of each of its samples.
Decoded == [t \in RunTelegrams |-> parseZ3805APacket(t, 0)]
RecordOf == [t \in RunTelegrams |->
                IF Decoded[t] = Nil THEN <<>> ELSE Encode(Sample(Decoded[t]))]

\* The sample telegram i is to decode to.
DecodedAt(i) ==
    IF Decoded[hist[i].tel] = Nil THEN Nil
    ELSE [Decoded[hist[i].tel] EXCEPT !.ParseTime = i]

\* The positions of the main task inside sendChronySample, after its guard.
Sending == {"dial", "write", "lock_sent", "inc_sent", "unlock_sent", "send_return"}

\* C5: a record is encoded and written only for a sample whose Valid flag is
\* true (status Locked or Holdover, status code 0 or 100); a PowerUp or Unknown
\* sample, or a nil decode result, causes no socket open, no encode and no
\* write, and the samples-sent counter counts only records written.
C5_OnlyValidSamplesSent ==
    /\ \A i \in Telegrams :
          (hist[i].encodes > 0 \/ hist[i].opens > 0 \/ hist[i].writes > 0)
              => /\ i \in ValidTelegrams
                 /\ hist[i].sample.Status \in {"LOCKED", "HOLDOVER"}
                 /\ StatusCodeIn(hist[i].tel) \in {0, 100}
    /\ \A j \in Records : wire[j].tel \in ValidTelegrams
    /\ (pc \in Sending \/ conn = "open" \/ buf # <<>>) => (data # Nil /\ data.Valid)
    /\ stats.chronySamples <= Len(wire)
    /\ Len(wire) <= Cardinality(ValidTelegrams)

\* C5 witness: a PowerUp telegram (status bytes 1, 0) was decoded and skipped
\* with nothing opened, encoded or written, and the next telegram was sent.
C5_Witness ==
    /\ Len(hist) = 2
    /\ hist[1].sample # Nil
    /\ hist[1].sample.Status = "POWER_UP"
    /\ <<hist[1].tel[14], hist[1].tel[15]>> = <<1, 0>>
    /\ hist[1].outcome = "skipped"
    /\ hist[2].outcome = "sent"
    /\ stats.chronySamples = 1

\* The fields of the record of a sample at the offsets of C6, little-endian.
C6_Layout(bytes, sample) ==
    /\ ReadLE64(bytes, 0) = Unix(sample.Timestamp)
    /\ ReadLE64(bytes, 8) = [hi |-> 0, lo |-> sample.Timestamp.nsec \div 1000]
    /\ ReadLE64(bytes, 16) = [hi |-> 0, lo |-> 0]
    /\ ReadLE(bytes, 24, 4) = 0
    /\ ReadLE(bytes, 28, 4) = 0

\* C6 as stated: every record written is exactly 32 bytes long, with seconds
\* at offset 0, microseconds at 8, offset at 16, pulse at 24 and leap at 28.
C6_Original ==
    \A j \in Records :
        /\ Len(wire[j].bytes) = 32
        /\ C6_Layout(wire[j].bytes, hist[wire[j].tel].sample)

\* C6 (amended): every record written is exactly 40 bytes long: seconds at
\* offset 0 (8 bytes), microseconds at 8 (8), offset at 16 (8), pulse at 24 (4),
\* leap at 28 (4), then the reserved field at 32 (4) and the magic at 36 (4),
\* all little-endian.
C6_RecordIs40Bytes ==
    \A j \in Records :
        /\ Len(wire[j].bytes) = 40
        /\ C6_Layout(wire[j].bytes, hist[wire[j].tel].sample)
        /\ ReadLE(wire[j].bytes, 32, 4) = 0
        /\ ReadLE(wire[j].bytes, 36, 4) = 1397703499

\* C6 witness: a record of the rollover-corrected Holdover telegram is on the
\* socket.
C6_Witness ==
    /\ Len(wire) >= 1
    /\ hist[wire[1].tel].sample.Status = "HOLDOVER"
    /\ hist[wire[1].tel].sample.Year = 2038
    /\ Len(wire[1].bytes) = 40

\* C8: each telegram causes at most one socket open and at most one write
\* attempt; a failed open or write drops the sample (nothing on the socket for
\* it, no retry), leaves the samples-sent counter alone and leaves the socket
\* closed when sendChronySample has returned; every telegram is decoded and
\* encoded from its own bytes alone, whatever happened to those before it.
C8_OneShotDelivery ==
    /\ \A i \in Telegrams :
          /\ hist[i].opens <= 1
          /\ hist[i].writes <= 1
          /\ hist[i].encodes <= 1
          /\ hist[i].decodes = 1 => hist[i].sample = DecodedAt(i)
    /\ \A i \in Failed : \A j \in Records : wire[j].tel # i
    /\ \A j \in Records : wire[j].bytes = RecordOf[hist[wire[j].tel].tel]
    /\ conn = "open" => pc \in Sending
    /\ pc \notin Sending =>
          /\ stats.chronySamples = Cardinality(Sent)
          /\ Len(wire) = Cardinality(Sent)
          /\ buf = <<>>

\* C8 witness: the write for the first telegram failed, the socket was closed,
\* and the second telegram was delivered and counted.
C8_Witness ==
    /\ Len(hist) = 2
    /\ hist[1].outcome = "write_failed"
    /\ hist[1].opens = 1
    /\ hist[2].outcome = "sent"
    /\ pc = "loop"
    /\ conn = "closed"
    /\ Len(wire) = 1
    /\ stats.chronySamples = 1

\* C9 as stated: a failed delivery gives the caller an outcome that differs
\* from that of a successful delivery and from that of a skipped sample.
C9_Original ==
    \A i \in Failed : \A j \in Telegrams :
        hist[j].outcome \in {"sent", "skipped"} => hist[i].returned # hist[j].returned

\* C9 (amended): sendChronySample returns nothing on any path, so the read
\* loop gets no outcome; a failed open or write is reported only by its log
\* line ("Failed to connect to chrony socket", "Failed to write to chrony
\* socket"), a delivery by the log line "Chrony binary sample sent" (and by
\* the samples-sent counter, see C8), and a skipped sample logs nothing.
C9_FailureOnlyLogged ==
    \A i \in Telegrams :
        /\ hist[i].outcome \in {"skipped", "dial_failed", "write_failed", "sent"}
              => hist[i].returned = "none"
        /\ hist[i].outcome = "dial_failed"
              => hist[i].logged = "Failed to connect to chrony socket"
        /\ hist[i].outcome = "write_failed"
              => hist[i].logged = "Failed to write to chrony socket"
        /\ hist[i].outcome = "sent" => hist[i].logged = "Chrony binary sample sent"
        /\ hist[i].outcome = "skipped" => hist[i].logged = ""

\* C9 witness: one call failed to connect, another delivered its sample, and
\* both returned.
C9_Witness ==
    /\ Len(hist) = 2
    /\ hist[1].outcome = "dial_failed"
    /\ hist[1].returned = "none"
    /\ hist[2].outcome = "sent"
    /\ hist[2].returned = "none"

\* C10: records reach the socket in telegram arrival order, one record at
\* most per telegram and each the record of its own telegram; the decode and
\* the transmit of a telegram have finished before the next telegram is read,
\* and a telegram is decoded at most once and transmitted at most once.
C10_ArrivalOrder ==
    /\ \A j \in Records : \A k \in Records : j < k => wire[j].tel < wire[k].tel
    /\ \A j \in Records :
          /\ wire[j].tel \in Telegrams
          /\ hist[wire[j].tel].sample # Nil
          /\ wire[j].bytes = RecordOf[hist[wire[j].tel].tel]
    /\ \A i \in Telegrams :
          /\ i < Len(hist) => hist[i].outcome # "pending"
          /\ hist[i].decodes <= 1
          /\ hist[i].writes <= 1
    /\ pc \in {"loop", "read", "wait", "done"} =>
          \A i \in Telegrams : hist[i].outcome # "pending"

\* C10 witness: two telegrams were read and the record of the first is ahead
\* of the record of the second on the socket.
C10_Witness ==
    /\ Len(wire) = 2
    /\ wire[1].tel = 1
    /\ wire[2].tel = 2
    /\ wire[1].bytes # wire[2].bytes

\* C11: the statistics aggregate is the only state shared between the tasks
\* of Run, and every read or write of it happens while holding the bridge's
\* mutex (write lock for increments, read lock for the reporter's snapshot);
\* no other variable is written by one task and read by another without a
\* lock.
C11_OnlyStatsShared ==
    /\ \A a \in Pending :
          a.var = "stats" =>
             IF a.write THEN mutex.writer = a.task ELSE mutex.readers > 0
    /\ \A a \in Pending : a.write /\ a.var \in SharedVars => a.var = "stats"
    /\ \A a \in Pending : \A b \in Pending : ~Racing(a, b)

\* C11, the part that holds: g.stats is accessed only under g.mutex and
\* currentData only under dataMutex.
C11_LockedVarsUnderLock ==
    \A a \in Pending :
       /\ a.var = "stats" => "mutex" \in LocksHeld(a)
       /\ a.var = "currentData" => "dataMutex" \in LocksHeld(a)

\* C11, the race alone: the signal goroutine is about to write `run` and the
\* read loop is about to read it, neither holding a lock.
C11_NoRaceOnRun ==
    ~(\E a \in Pending : \E b \in Pending : a.var = "run" /\ Racing(a, b))

\* 16-byte reads, decoded samples and records written that the read loop has
\* yet to count: it is between the event and the increment.
UncountedRead ==
    IF pc \in {"lock_total", "inc_total"} \/ (pc = "check_n" /\ n = TelegramLen)
    THEN 1 ELSE 0
UncountedSample == IF pc \in {"lock_valid", "inc_valid"} THEN 1 ELSE 0
UncountedWrite == IF pc \in {"lock_sent", "inc_sent"} THEN 1 ELSE 0

\* The telegrams that decoded to a sample, whatever its Valid flag.
SampleTelegrams == {i \in Telegrams : hist[i].sample # Nil}

Ordered(st) ==
    /\ st.chronySamples <= st.validPackets
    /\ st.validPackets <= st.totalPackets

C12_Counted ==
    /\ Ordered(stats)
    /\ snap.stats # Nil => Ordered(snap.stats)
    /\ stats.totalPackets = Len(hist) - UncountedRead
    /\ stats.validPackets = Cardinality(SampleTelegrams) - UncountedSample
    /\ stats.chronySamples = Len(wire) - UncountedWrite

C12_Increment ==
    /\ stats'.totalPackets \in {stats.totalPackets, stats.totalPackets + 1}
    /\ stats'.validPackets \in {stats.validPackets, stats.validPackets + 1}
    /\ stats'.chronySamples \in {stats.chronySamples, stats.chronySamples + 1}
    /\ Len(hist') >= Len(hist)
    /\ Len(wire') >= Len(wire)
    /\ Cardinality({i \in 1..Len(hist') : hist'[i].sample # Nil})
          >= Cardinality(SampleTelegrams)

\* C12: in every reachable state of Run, and in every snapshot the reporter
\* takes under the read lock, samples-sent <= valid-packets <= total-packets;
\* each counter only ever increases, total-packets by one per error-free
\* 16-byte read, valid-packets by one per telegram that decodes to a sample
\* (whatever its Valid flag), and samples-sent by one per successful socket
\* write.
C12_CountersOrdered == []C12_Counted /\ [][C12_Increment]_vars

\* C12 witness: the reporter holds a snapshot taken after two 16-byte reads
\* that both decoded to a sample, one of them not valid and so never written.
C12_Witness ==
    /\ snap.stats # Nil
    /\ snap.stats.totalPackets = 2
    /\ snap.stats.validPackets = 2
    /\ snap.stats.chronySamples = 1
    /\ \E i \in SampleTelegrams : ~hist[i].sample.Valid

----------------------------------------------------------------------------
(* Further properties of parseZ3805APacket, under SpecParse.               *)

\* The calendar fields of a sample are those of its Timestamp.
DateAgrees(d) ==
    /\ d.Year = Year(d.Timestamp)
    /\ d.DayOfYear = YearDay(d.Timestamp)

\* The clock fields of a sample are those of its Timestamp.
ClockAgrees(d) ==
    /\ d.Hour = Hour(d.Timestamp)
    /\ d.Minute = Minute(d.Timestamp)
    /\ d.Second = Second(d.Timestamp)

\* C13: for every decoded sample, the Year and DayOfYear fields equal the
\* calendar year and day-of-year of the sample's Timestamp, and Hour, Minute,
\* Second equal the Timestamp's time of day; in particular this holds for
\* day-of-year 366 in a non-leap year and for year 2099.
C13_FieldsMatchTimestamp ==
    (Parsed /\ data # Nil) => DateAgrees(data) /\ ClockAgrees(data)

\* C13, the part that holds: the clock fields always agree, and the calendar
\* fields disagree exactly for day 366 of a year from 2020 on that is not a
\* leap year, where the Timestamp is 1 January of the following year.
C13_AgreesExceptDay366 ==
    (Parsed /\ data # Nil) =>
       /\ ClockAgrees(data)
       /\ DateAgrees(data) <=>
             ~(/\ YearIn(buffer) >= RolloverYear
               /\ ~isLeap(YearIn(buffer))
               /\ DayOfYearIn(buffer) = 366)
       /\ ~DateAgrees(data) =>
             /\ data.Year = YearIn(buffer)
             /\ data.DayOfYear = 366
             /\ Year(data.Timestamp) = data.Year + 1
             /\ YearDay(data.Timestamp) = 1

\* C13: a sample of 2099, day 366, whose Timestamp lies in 2100.
C13_Day366Of2099 ==
    /\ Parsed
    /\ data # Nil
    /\ data.Year = 2099
    /\ data.DayOfYear = 366
    /\ Year(data.Timestamp) = 2100

\* A telegram whose bytes 0-14 are each one decimal digit.
DigitOnly(d) == Len(d) = TelegramLen /\ \A i \in 1..(TelegramLen - 1) : d[i] \in 0..9

\* The statuses of the samples the digit-only telegrams of ParseInputs decode to.
DigitStatuses ==
    {parseZ3805APacket(d, 0).Status :
        d \in {x \in ParseInputs : DigitOnly(x) /\ parseZ3805APacket(x, 0) # Nil}}

\* The statuses telegram d decodes to when its status field is replaced by
\* each pair of decimal digits.
StatusesWithDigits(d) ==
    {parseZ3805APacket([d EXCEPT ![14] = a, ![15] = b], 0).Status :
        a \in 0..9, b \in 0..9}

\* C14: restricted to telegrams in which each of bytes 0-14 is a single
\* decimal digit, every status of the classification table is reachable: for
\* each of Locked, PowerUp, Holdover and Unknown there is an accepted telegram
\* that decodes to that status, so a Holdover sample can be produced from a
\* digit-only telegram.
C14_EveryStatusFromDigits ==
    (Parsed /\ data # Nil /\ DigitOnly(buffer)) =>
       \A st \in {GPSDOLocked, GPSDOPowerUp, GPSDOHoldover, GPSDOUnknown} :
           st \in StatusesWithDigits(buffer)

\* C14, what the parser does: a digit-only telegram has a status code of at
\* most 99 and never decodes to Holdover, and the other three statuses are
\* decoded from digit-only telegrams.
C14_NoHoldoverFromDigits ==
    /\ (Parsed /\ data # Nil /\ DigitOnly(buffer)) =>
          /\ StatusCodeIn(buffer) <= 99
          /\ data.Status # GPSDOHoldover
          /\ StatusesWithDigits(buffer) = {GPSDOLocked, GPSDOPowerUp, GPSDOUnknown}
    /\ DigitStatuses = {GPSDOLocked, GPSDOPowerUp, GPSDOUnknown}

\* C14: a Holdover sample; byte 13 of its telegram is 10, not a decimal digit.
C14_HoldoverNeedsByte10 ==
    /\ Parsed
    /\ data # Nil
    /\ data.Status = GPSDOHoldover
    /\ buffer[14] = 10
    /\ ~DigitOnly(buffer)

====
